---- MODULE Spec2Model ----
(***************************************************************************)
(* A model of pygeoapi's KubernetesManager                                 *)
(* (pygeoapi/process/manager/kubernetes.py) and of the shape of the values *)
(* its processors hand to it (pygeoapi/process/notebook.py,                *)
(* pygeoapi/process/notebook_eox.py), together with the cluster objects    *)
(* (Jobs, Pods, Secrets, Namespaces) the manager reads and writes.         *)
(*                                                                         *)
(* Python's None is the empty tuple; a present optional value v is <<v>>.  *)
(* An operation's outcome is a record [exc, http, ret]: exc is "" for a    *)
(* normal return (ret holds the optional return value) and the exception's *)
(* class name otherwise (http is the status of an ApiException, else 0).   *)
(***************************************************************************)
EXTENDS Integers, Sequences, FiniteSets, TLC

VARIABLES
    manager_def,    \* per manager instance: the manager_def dict of __init__
    namespaces,     \* cluster: the namespaces that exist
    jobs,           \* cluster: <<namespace, name>> -> V1Job
    pods,           \* cluster: <<namespace, job name>> -> list of the job's V1Pod
    secrets,        \* cluster: namespaces holding a secret named s3-bucket
    submitted_by,   \* history: <<namespace, name>> -> manager whose call created the Job
    sync,           \* the in-flight call of _execute_handler, if any
    last            \* the step taken last: operation, arguments, API answers, outcome

vars == <<manager_def, namespaces, jobs, pods, secrets, submitted_by, sync, last>>

---------------------------------------------------------------------------
(* Bounds of the model *)

\* Job objects the cluster holds at once
MaxJobs == 2
\* distinct clock readings (datetime.utcnow / datetime.now / transition times)
MaxTime == 1

Times == 1..MaxTime

---------------------------------------------------------------------------
(* Python values *)

None == <<>>
Some(v) == <<v>>

Return(v) == [exc |-> "", http |-> 0, ret |-> v]
Raise(e) == [exc |-> e, http |-> 0, ret |-> None]
RaiseApi(status) == [exc |-> "ApiException", http |-> status, ret |-> None]

\* str.startswith
StartsWith(s, prefix) ==
    /\ Len(s) >= Len(prefix)
    /\ SubSeq(s, 1, Len(prefix)) = prefix

---------------------------------------------------------------------------
(* Module constants and helpers of kubernetes.py *)

NOT_FOUND == 404

S3_BUCKET_SECRET_NAME == "s3-bucket"

_ANNOTATIONS_PREFIX == "pygeoapi_"

_JOB_NAME_PREFIX == "pygeoapi-job-"

\* str.find, counting from 1; 0 when c does not occur in s
find(s, c) ==
    LET hits == { i \in 1..Len(s) : SubSeq(s, i, i) = c }
    IN  IF hits = {} THEN 0 ELSE CHOOSE i \in hits : \A j \in hits : i <= j

\* re.match("^pygeoapi_(.+)", key): group 1, or None without a match.  "."
\* matches every character but a newline and "+" asks for one at least.
parse_annotation_key(key) ==
    LET rest == SubSeq(key, Len(_ANNOTATIONS_PREFIX) + 1, Len(key))
        newline == find(rest, "\n")
        group == IF newline = 0 THEN rest ELSE SubSeq(rest, 1, newline - 1)
    IN  IF StartsWith(key, _ANNOTATIONS_PREFIX) /\ Len(group) > 0
        THEN Some(group)
        ELSE None

format_annotation_key(key) == _ANNOTATIONS_PREFIX \o key

k8s_job_name(job_id) == _JOB_NAME_PREFIX \o job_id

is_k8s_job_name(job_name) == StartsWith(job_name, _JOB_NAME_PREFIX)

\* a counter of V1JobStatus is None when it is 0
Positive(counter) == counter # None /\ counter[1] > 0

\* a variant that looks at the active pods before the failed ones
job_status_active_first(status) ==
    IF Positive(status.succeeded) THEN "successful"
    ELSE IF Positive(status.active) THEN "running"
    ELSE IF Positive(status.failed) THEN "failed"
    ELSE "accepted"

job_status_from_k8s(status) ==
    IF Positive(status.succeeded) THEN "successful"
    ELSE IF Positive(status.failed) THEN "failed"
    ELSE IF Positive(status.active) THEN "running"
    ELSE "accepted"

\* datetime.strftime(DATETIME_FORMAT): the text of a clock reading
strftime(t) == [strftime |-> t]

\* max(generator, default=None) over the transition times of the conditions
\* of type "Failed" with status "True"
LatestFailedTransition(conditions) ==
    LET failed_times == { conditions[i].last_transition_time :
                            i \in { j \in DOMAIN conditions :
                                      /\ conditions[j].type = "Failed"
                                      /\ conditions[j].status = "True" } }
    IN  IF failed_times = {} THEN None
        ELSE Some(CHOOSE t \in failed_times : \A u \in failed_times : u <= t)

\* iterating job.status.conditions when the cluster reports none (None)
\* raises TypeError
get_completion_time(job, status) ==
    IF status = "failed"
    THEN IF job.status.conditions = None
         THEN Raise("TypeError")
         ELSE Return(LatestFailedTransition(job.status.conditions[1]))
    ELSE Return(job.status.completion_time)

\* ": ".join(filter(None, (reason, message))); an absent field is ""
JoinReasonMessage(s) ==
    IF s.reason # "" /\ s.message # "" THEN s.reason \o ": " \o s.message
    ELSE IF s.reason # "" THEN s.reason
    ELSE s.message

\* _job_message after the pod list answered: pod_list is pods.items
MessageOfPods(pod_list) ==
    IF pod_list = <<>> THEN Return(None)
    ELSE LET container_statuses == pod_list[1].status.container_statuses
         IN  IF container_statuses = None THEN Raise("TypeError")
             ELSE IF container_statuses[1] = <<>> THEN Raise("IndexError")
             ELSE LET state == container_statuses[1][1].state
                      interesting_states ==
                          SelectSeq(<<state.waiting, state.terminated>>,
                                    LAMBDA s : s # None)
                  IN  IF interesting_states # <<>>
                      THEN Return(Some(JoinReasonMessage(interesting_states[1][1])))
                      ELSE Return(None)

Progress(status) ==
    IF status = "accepted" THEN "5"
    ELSE IF status = "running" THEN "50"
    ELSE "100"

\* the keys of the annotation map that carry the prefix, parsed
ParsedKeys(annotations) ==
    { parse_annotation_key(k)[1] :
        k \in { a \in DOMAIN annotations : parse_annotation_key(a) # None } }

OrigKey(annotations, parsed_key) ==
    CHOOSE a \in DOMAIN annotations : parse_annotation_key(a) = Some(parsed_key)

\* the dict comprehension of job_from_k8s over the annotation map
MetadataFromAnnotation(annotations) ==
    [ k \in ParsedKeys(annotations) |-> annotations[OrigKey(annotations, k)] ]

\* annotations "or {}": an absent map and an empty one are both <<>>
job_from_k8s(job, message) ==
    LET annotations == job.metadata.annotations
        metadata_from_annotation == MetadataFromAnnotation(annotations)
        status == job_status_from_k8s(job.status)
        completion_time == get_completion_time(job, status)
        computed_metadata ==
            [ status |-> status,
              message |-> IF message # None /\ message[1] # "" THEN message[1] ELSE "",
              progress |-> Progress(status),
              process_end_datetime |->
                  IF completion_time.ret # None
                  THEN Some(strftime(completion_time.ret[1]))
                  ELSE None ]
    IN  IF completion_time.exc # "" THEN completion_time
        ELSE Return(Some(computed_metadata @@ metadata_from_annotation))

---------------------------------------------------------------------------
(* The processors: what create_job_pod_spec hands back to the manager *)

\* the processors of the repository
RepoProcessors == {"papermill", "eox"}

\* "link" and "file" stand for subclasses of KubernetesProcessor that return
\* the JobPodSpec the base class declares, with result_type "link" and with
\* another result type
Processors == RepoProcessors \cup {"link", "file"}

Notebooks == {"a.ipynb"}

\* str.endswith
EndsWith(s, suffix) ==
    /\ Len(s) >= Len(suffix)
    /\ SubSeq(s, Len(s) - Len(suffix) + 1, Len(s)) = suffix

\* s.split(sep)[0]
SplitFirst(s, sep) == IF find(s, sep) = 0 THEN s ELSE SubSeq(s, 1, find(s, sep) - 1)

\* re.sub(".ipynb$", "", notebook_path): the "." is any character but a newline
StripIpynb(notebook_path) ==
    IF /\ Len(notebook_path) >= 6
       /\ EndsWith(notebook_path, "ipynb")
       /\ SubSeq(notebook_path, Len(notebook_path) - 5, Len(notebook_path) - 5) # "\n"
    THEN SubSeq(notebook_path, 1, Len(notebook_path) - 6)
    ELSE notebook_path

\* PurePath(s) on a POSIX system: the root ("//" for exactly two leading
\* slashes) and the parts, empty and "." components dropped
PurePath(s) ==
    LET slashes == { i \in 1..Len(s) : SubSeq(s, i, i) = "/" }
        n == Cardinality(slashes)
        cut(k) == CHOOSE i \in slashes : Cardinality({ j \in slashes : j < i }) = k - 1
        piece(k) == SubSeq(s, IF k = 1 THEN 1 ELSE cut(k - 1) + 1,
                              IF k = n + 1 THEN Len(s) ELSE cut(k) - 1)
        pieces == [ k \in 1..(n + 1) |-> piece(k) ]
    IN  [ root |-> IF StartsWith(s, "//") /\ ~StartsWith(s, "///") THEN "//"
                   ELSE IF StartsWith(s, "/") THEN "/"
                   ELSE "",
          parts |-> SelectSeq(pieces, LAMBDA x : x # "" /\ x # ".") ]

\* PurePath.is_absolute
is_absolute(path) == path.root # ""

\* PurePath.__truediv__
truediv(path, other) ==
    IF is_absolute(other) THEN other
    ELSE [ root |-> path.root, parts |-> path.parts \o other.parts ]

\* PurePath.parent
parent(path) ==
    IF path.parts = <<>> THEN path
    ELSE [ path EXCEPT !.parts = SubSeq(@, 1, Len(@) - 1) ]

\* str(PurePath)
PathStr(path) ==
    LET joined[i \in 0..Len(path.parts)] ==
            IF i = 0 THEN ""
            ELSE IF i = 1 THEN path.parts[1]
            ELSE joined[i - 1] \o "/" \o path.parts[i]
    IN  IF path.root = "" /\ path.parts = <<>> THEN "."
        ELSE path.root \o joined[Len(path.parts)]

CONTAINER_HOME == PurePath("/home/jovyan")

\* variant of working_dir that joins every path to the home directory
working_dir_always_under_home(notebook_path) ==
    parent([ root |-> CONTAINER_HOME.root,
             parts |-> CONTAINER_HOME.parts \o notebook_path.parts ])

\* notebook.working_dir
working_dir(notebook_path) ==
    parent(IF is_absolute(notebook_path) THEN notebook_path
           ELSE truediv(CONTAINER_HOME, notebook_path))

\* notebook.gpu_extra_podspec
gpu_extra_podspec ==
    [ affinity |->
        Some([ node_affinity |->
                 [ required_during_scheduling_ignored_during_execution |->
                     [ node_selector_terms |->
                         << [ match_expressions |->
                                << [ key |-> "hub.eox.at/node-purpose",
                                     operator |-> "In",
                                     values |-> <<"g2">> ] >> ] >> ] ] ]),
      tolerations |->
        Some(<< [ key |-> "hub.eox.at/gpu", operator |-> "Exists",
                  effect |-> "NoSchedule" ] >>) ]

\* variant of append_s3_config that adds the sidecar and its volume and leaves
\* the primary container without the mount
append_s3_config_without_mount(s3_bucket_config, s3_bucket_name) ==
    [ extra_volume_mounts |-> <<>>,
      extra_volumes |-> << [ name |-> "s3-user-bucket",
                             persistent_volume_claim |-> None,
                             empty_dir |-> TRUE ] >>,
      extra_containers |->
          << [ name |-> "s3mounter",
               image |-> "totycro/s3fs:0.4.0-1.86",
               volume_mounts |-> << [ mount_path |-> "/opt/s3fs/bucket",
                                      name |-> "s3-user-bucket" ] >>,
               secret_name |-> s3_bucket_config.secret_name,
               AWS_S3_BUCKET |-> s3_bucket_name ] >> ]

\* notebook.append_s3_config: what it appends to the three lists
append_s3_config(s3_bucket_config, s3_bucket_name) ==
    [ extra_volume_mounts |-> << [ mount_path |-> PathStr(CONTAINER_HOME) \o "/s3",
                                   name |-> "s3-user-bucket" ] >>,
      extra_volumes |-> << [ name |-> "s3-user-bucket",
                             persistent_volume_claim |-> None,
                             empty_dir |-> TRUE ] >>,
      extra_containers |->
          << [ name |-> "s3mounter",
               image |-> "totycro/s3fs:0.4.0-1.86",
               volume_mounts |-> << [ mount_path |-> "/opt/s3fs/bucket",
                                      name |-> "s3-user-bucket" ] >>,
               secret_name |-> s3_bucket_config.secret_name,
               AWS_S3_BUCKET |-> s3_bucket_name ] >> ]

\* the processor_def of the repository's tests
DefaultProcessorDef ==
    [ name |-> "test", s3_bucket_name |-> "example", default_image |-> "example",
      extra_pvcs |-> <<>>, home_volume_claim_name |-> "user",
      image_pull_secret |-> "", jupyter_base_url |-> "" ]

\* clock ticks (microseconds, scaled down) in a second
TicksPerSecond == 2

\* datetime.now().strftime("%Y%m%d-%H%M%S-%f"): the reading to the microsecond
PapermillStamp(now) == [ seconds |-> now \div TicksPerSecond,
                         microseconds |-> now % TicksPerSecond ]

\* datetime.now().strftime("%y%m%d-%H%M%S"): the reading to the second
EOXStamp(now) == [ seconds |-> now \div TicksPerSecond ]

\* filename_without_postfix + f"_result_{now_formatted}.ipynb"
OutputNotebook(notebook_path, now_formatted) ==
    [ filename_without_postfix |-> StripIpynb(notebook_path),
      now_formatted |-> now_formatted ]

\* variant of is_gpu that looks at the text after the last ":" of the image
is_gpu_by_tag(image) ==
    LET colons == { i \in 1..Len(image) : SubSeq(image, i, i) = ":" }
        last_colon == IF colons = {} THEN 0
                      ELSE CHOOSE i \in colons : \A j \in colons : j <= i
    IN  EndsWith(SubSeq(image, last_colon + 1, Len(image)), "-g")

\* is_gpu = image.split(":")[0].endswith("-g")
is_gpu(image) == EndsWith(SplitFirst(image, ":"), "-g")

\* PapermillNotebookKubernetesProcessor.create_job_pod_spec returns a plain
\* 2-tuple (pod spec, result dict), not a JobPodSpec.  Of processor_def it
\* reads default_image and s3_bucket_name (kept by __init__) and nothing else.
PapermillJobPodSpec(processor_def, data, user_uuid, s3_bucket_config, now) ==
    LET notebook_path == data.notebook
        parameters == data.parameters
        image == processor_def.default_image
        kernel == IF is_gpu(image) THEN "edc-gpu" ELSE "edc"
        output_notebook == OutputNotebook(notebook_path, PapermillStamp(now))
        extra_podspec == IF is_gpu(image) THEN gpu_extra_podspec
                         ELSE [ affinity |-> None, tolerations |-> None ]
        extra == IF s3_bucket_config # None
                 THEN append_s3_config(s3_bucket_config[1], processor_def.s3_bucket_name)
                 ELSE [ extra_volume_mounts |-> <<>>, extra_volumes |-> <<>>,
                        extra_containers |-> <<>> ]
        notebook_container ==
            [ name |-> "job-notebook",
              image |-> image,
              command |-> [ notebook_path |-> notebook_path,
                            output_notebook |-> output_notebook,
                            kernel |-> kernel,
                            parameters |-> IF parameters # "" THEN Some(parameters)
                                           ELSE None ],
              working_dir |-> PathStr(working_dir(PurePath(notebook_path))),
              volume_mounts |-> << [ mount_path |-> PathStr(CONTAINER_HOME),
                                     name |-> "home" ] >>
                                \o extra.extra_volume_mounts ]
        volumes == << [ name |-> "home",
                        persistent_volume_claim |-> Some("user"),
                        empty_dir |-> FALSE ] >> \o extra.extra_volumes
    IN  [ type |-> "tuple",
          items |-> << [ restart_policy |-> "Never",
                         containers |-> <<notebook_container>> \o extra.extra_containers,
                         volumes |-> volumes,
                         share_process_namespace |-> TRUE,
                         affinity |-> extra_podspec.affinity,
                         tolerations |-> extra_podspec.tolerations,
                         image_pull_secrets |-> None ],
                       [ result_type |-> "link",
                         link |-> [ base |-> "https://edc-jupyter.hub.eox.at/hub/user-redirect/lab/tree/",
                                    quoted |-> output_notebook ] ] >> ]

\* EOXPapermillNotebookKubernetesProcessor.create_job_pod_spec, called with
\* the parameters it declares
EOXJobPodSpec(data, user_uuid, user_email, now) ==
    LET notebook_path == data.notebook
        output_notebook == OutputNotebook(notebook_path, EOXStamp(now))
        container ==
            [ name |-> "job-notebook",
              image |-> "IMAGE",
              command |-> [ notebook_path |-> notebook_path,
                            output_notebook |-> output_notebook,
                            kernel |-> "",
                            parameters |-> Some(data.parameters) ],
              working_dir |-> "/home/jovyan",
              volume_mounts |-> << [ mount_path |-> "/home/jovyan", name |-> "home" ] >> ]
    IN  [ type |-> "tuple",
          items |-> << [ restart_policy |-> "Never",
                         containers |-> <<container>>,
                         volumes |-> << [ name |-> "home",
                                          persistent_volume_claim |-> Some("HOME_PVC"),
                                          empty_dir |-> FALSE ] >>,
                         share_process_namespace |-> FALSE,
                         affinity |-> None,
                         tolerations |-> None,
                         image_pull_secrets |-> Some(<<"IMAGE_PULL_SECRETS">>) ],
                       [ result_type |-> "link",
                         link |-> [ base |-> "https://eox-jupyter.hub.eox.at/hub/user-redirect/lab/tree/",
                                    quoted |-> output_notebook ] ] >> ]

\* the value a contract-abiding processor returns
ContractJobPodSpec(result_type, link) ==
    [ type |-> "JobPodSpec",
      pod_spec |-> [ restart_policy |-> "Never",
                     containers |-> <<"job">>,
                     share_process_namespace |-> FALSE ],
      result |-> [ result_type |-> result_type, link |-> link ],
      extra_annotations |-> <<>> ]

\* p.create_job_pod_spec(data=, user_uuid=, s3_bucket_config=) as the manager
\* calls it.  EOXPapermillNotebookKubernetesProcessor declares the parameters
\* (data, user_uuid, user_email): the keyword s3_bucket_config is unexpected.
create_job_pod_spec(p, data, user_uuid, s3_bucket_config, now, link) ==
    CASE p = "papermill" ->
            Return(Some(PapermillJobPodSpec(DefaultProcessorDef, data, user_uuid,
                                            s3_bucket_config, now)))
      [] p = "eox" -> Raise("TypeError")
      [] p = "link" -> Return(Some(ContractJobPodSpec("link", link)))
      [] p = "file" -> Return(Some(ContractJobPodSpec("file", link)))

---------------------------------------------------------------------------
(* The manager: configuration *)

Managers == {"m1", "m2"}

UserUuid(m) ==
    IF m = "m1" THEN "11111111-aaaa-4aaa-8aaa-aaaaaaaaaaaa"
    ELSE "22222222-bbbb-4bbb-8bbb-bbbbbbbbbbbb"

\* what /var/run/secrets/kubernetes.io/serviceaccount/namespace holds
current_namespace == "pygeoapi"

\* self.namespace as __init__ sets it
namespace(m) ==
    IF manager_def[m].jobs_in_user_namespace
    THEN manager_def[m].user_uuid
    ELSE current_namespace

AllNamespaces == {current_namespace} \cup { UserUuid(m) : m \in Managers }

JobIds == {"a", "b"}

\* a Job of the namespace that the manager did not name
ForeignName == "cronjob-backup"

\* the names a Job can have, in the order the cluster lists them
AllNames == <<ForeignName, k8s_job_name("a"), k8s_job_name("b")>>

\* variant of JobKey that addresses current_namespace() whatever the manager's
\* jobs_in_user_namespace says
JobKeyInCurrentNamespace(m, job_id) == <<current_namespace, k8s_job_name(job_id)>>

JobKey(m, job_id) == <<namespace(m), k8s_job_name(job_id)>>

---------------------------------------------------------------------------
(* The Kubernetes API as the manager calls it.  fault is the status of an   *)
(* injected server fault, or 200 for none; an ApiException carries it.      *)

Faults == {200, 500}

\* BatchV1Api.read_namespaced_job / delete_namespaced_job: the status answered
JobStatusCode(key, fault) ==
    IF fault # 200 THEN fault
    ELSE IF key \in DOMAIN jobs THEN 200
    ELSE NOT_FOUND

\* variant of CreateStatusCode for a create call that replaces a Job of the
\* same name
CreateStatusCodeReplaces(key, fault) ==
    IF fault # 200 THEN fault
    ELSE IF key[1] \notin namespaces THEN NOT_FOUND
    ELSE 201

\* BatchV1Api.create_namespaced_job: a missing namespace answers 404, a name
\* in use 409
CreateStatusCode(key, fault) ==
    IF fault # 200 THEN fault
    ELSE IF key[1] \notin namespaces THEN NOT_FOUND
    ELSE IF key \in DOMAIN jobs THEN 409
    ELSE 201

\* CoreV1Api.read_namespaced_secret("s3-bucket", namespace)
SecretStatusCode(ns, fault) ==
    IF fault # 200 THEN fault
    ELSE IF ns \in secrets THEN 200
    ELSE NOT_FOUND

\* the names of the namespace's Jobs, as list_namespaced_job orders them
ListedNames(ns) ==
    SelectSeq(AllNames, LAMBDA n : <<ns, n>> \in DOMAIN jobs)

WithApi(o, api) == [exc |-> o.exc, http |-> o.http, ret |-> o.ret, api |-> api]

---------------------------------------------------------------------------
(* The manager: operations, as functions of the cluster's state *)

\* KubernetesManager._job_message
_job_message(key, fault) ==
    IF fault # 200 THEN WithApi(RaiseApi(fault), <<fault>>)
    ELSE WithApi(MessageOfPods(pods[key]), <<200>>)

\* job_from_k8s(k8s_job, self._job_message(k8s_job)): the argument first
JobRepresentation(key, fault) ==
    LET message == _job_message(key, fault)
    IN  IF message.exc # "" THEN message
        ELSE WithApi(job_from_k8s(jobs[key], message.ret), message.api)

\* KubernetesManager.get_job_result; f = [read, pods] are the injected faults.
\* The pod list runs inside the try block, so its 404 is caught as well.
get_job_result(m, jobid, f) ==
    LET key == JobKey(m, jobid)
        read == JobStatusCode(key, f.read)
    IN  IF read = NOT_FOUND THEN WithApi(Return(None), <<read>>)
        ELSE IF read # 200 THEN WithApi(RaiseApi(read), <<read>>)
        ELSE LET rep == JobRepresentation(key, f.pods)
             IN  IF rep.exc = "ApiException" /\ rep.http = NOT_FOUND
                 THEN WithApi(Return(None), <<read>> \o rep.api)
                 ELSE WithApi(rep, <<read>> \o rep.api)

\* KubernetesManager.get_jobs; f = [list, pods].  The comprehension stops at
\* the first job whose representation raises.
get_jobs(m, f) ==
    LET ns == namespace(m)
        names == SelectSeq(ListedNames(ns), is_k8s_job_name)
        reps == [ i \in 1..Len(names) |-> JobRepresentation(<<ns, names[i]>>, f.pods) ]
        raising == { i \in 1..Len(names) : reps[i].exc # "" }
        first == CHOOSE i \in raising : \A j \in raising : i <= j
    IN  IF f.list # 200 THEN WithApi(RaiseApi(f.list), <<f.list>>)
        ELSE IF raising # {}
        THEN WithApi(reps[first], <<200>> \o [ i \in 1..first |-> f.pods ])
        ELSE WithApi(Return(Some([ i \in 1..Len(names) |-> reps[i].ret[1] ])),
                     <<200>> \o [ i \in 1..Len(names) |-> 200 ])

\* KubernetesManager.get_job_output: (status, output).  result["result_link"]
\* raises KeyError when the Job carries no such annotation.
get_job_output(m, job_id, f) ==
    LET result == get_job_result(m, job_id, f)
    IN  IF result.exc # "" THEN result
        ELSE IF result.ret = None
        THEN WithApi(Return(Some(<<None, None>>)), result.api)
        ELSE LET job_status == result.ret[1].status
             IN  IF job_status # "successful"
                 THEN WithApi(Return(Some(<<Some(job_status), None>>)), result.api)
                 ELSE IF "result_link" \notin DOMAIN result.ret[1]
                 THEN WithApi(Raise("KeyError"), result.api)
                 ELSE WithApi(
                        Return(Some(<<Some(job_status),
                                      Some([result_link |-> result.ret[1].result_link])>>)),
                        result.api)

\* variant of delete_job whose handler answers False to every ApiException
delete_job_any_fault_is_false(m, job_id, fault) ==
    LET answer == JobStatusCode(JobKey(m, job_id), fault)
    IN  IF answer # 200 THEN WithApi(Return(Some(FALSE)), <<answer>>)
        ELSE WithApi(Return(Some(TRUE)), <<answer>>)

\* KubernetesManager.delete_job: the outcome
delete_job(m, job_id, fault) ==
    LET answer == JobStatusCode(JobKey(m, job_id), fault)
    IN  IF answer = NOT_FOUND THEN WithApi(Return(Some(FALSE)), <<answer>>)
        ELSE IF answer # 200 THEN WithApi(RaiseApi(answer), <<answer>>)
        ELSE WithApi(Return(Some(TRUE)), <<answer>>)

\* variant of DeletedKeys that removes every Job of the manager's namespace
DeletedKeysOfNamespace(m, job_id, fault) ==
    IF JobStatusCode(JobKey(m, job_id), fault) = 200
    THEN { k \in DOMAIN jobs : k[1] = namespace(m) }
    ELSE {}

\* the keys delete_namespaced_job removes
DeletedKeys(m, job_id, fault) ==
    IF JobStatusCode(JobKey(m, job_id), fault) = 200 THEN {JobKey(m, job_id)} ELSE {}

\* variant of _get_s3_bucket_config whose handler re-raises every ApiException
_get_s3_bucket_config_reraises_all(m, fault) ==
    LET answer == SecretStatusCode(namespace(m), fault)
    IN  IF answer # 200 THEN WithApi(RaiseApi(answer), <<answer>>)
        ELSE WithApi(Return(Some([secret_name |-> S3_BUCKET_SECRET_NAME])), <<answer>>)

\* KubernetesManager._get_s3_bucket_config
_get_s3_bucket_config(m, fault) ==
    LET answer == SecretStatusCode(namespace(m), fault)
    IN  IF answer = NOT_FOUND THEN WithApi(Return(None), <<answer>>)
        ELSE IF answer # 200 THEN WithApi(RaiseApi(answer), <<answer>>)
        ELSE WithApi(Return(Some([secret_name |-> S3_BUCKET_SECRET_NAME])), <<answer>>)

\* KubernetesManager.add_job
add_job(m, job_metadata) == WithApi(Raise("NotImplementedError"), <<>>)

\* KubernetesManager.update_job
update_job(m, job_id, update_dict) == WithApi(Raise("NotImplementedError"), <<>>)

\* KubernetesManager.delete_jobs
delete_jobs(m, max_jobs, older_than) == WithApi(Raise("NotImplementedError"), <<>>)

\* KubernetesManager.get_job_status: a body that holds a docstring only
get_job_status(m, p, job_id, data_dict) == WithApi(Return(None), <<>>)

BACKOFF_LIMIT == 0

TTL_SECONDS_AFTER_FINISHED == 60 * 60 * 24 * 7

\* the V1Job that _execute_handler_async assembles; the status is the one the
\* cluster gives a Job it has just stored
NewJob(job_id, annotations, pod_spec) ==
    [ metadata |-> [ name |-> k8s_job_name(job_id),
                     annotations |->
                         [ a \in { format_annotation_key(k) : k \in DOMAIN annotations }
                             |-> annotations[CHOOSE k \in DOMAIN annotations :
                                                format_annotation_key(k) = a] ] ],
      spec |-> [ template |-> pod_spec,
                 backoff_limit |-> BACKOFF_LIMIT,
                 ttl_seconds_after_finished |-> TTL_SECONDS_AFTER_FINISHED ],
      status |-> [ succeeded |-> None, failed |-> None, active |-> None,
                   conditions |-> None, completion_time |-> None ] ]

\* the annotations dict of _execute_handler_async: job_pod_spec is read by
\* attribute, which a tuple does not have
SubmissionAnnotations(job_id, job_pod_spec, now) ==
    IF job_pod_spec.type # "JobPodSpec" THEN Raise("AttributeError")
    ELSE IF job_pod_spec.result.result_type # "link" THEN Raise("Exception")
    ELSE Return(Some(
            ("result_link" :> job_pod_spec.result.link)
            @@ job_pod_spec.extra_annotations
            @@ [ identifier |-> job_id, process_start_datetime |-> strftime(now) ]))

\* variant of _execute_handler_async that checks the result type only after
\* create_namespaced_job has answered
_execute_handler_async_checks_late(m, p, job_id, data, e) ==
    LET s3 == _get_s3_bucket_config(m, e.secret)
        job_pod_spec == create_job_pod_spec(p, data, manager_def[m].user_uuid,
                                            s3.ret, e.now, e.link)
        annotations == SubmissionAnnotations(job_id, job_pod_spec.ret[1], e.now)
        answer == CreateStatusCode(JobKey(m, job_id), e.create)
        nothing(o, api) == [out |-> WithApi(o, api), stored |-> None]
    IN  IF s3.exc # "" THEN nothing(s3, s3.api)
        ELSE IF job_pod_spec.exc # "" THEN nothing(job_pod_spec, s3.api)
        ELSE IF annotations.exc = "AttributeError" THEN nothing(annotations, s3.api)
        ELSE IF answer # 201 THEN nothing(RaiseApi(answer), s3.api \o <<answer>>)
        ELSE IF annotations.exc # ""
        THEN [ out |-> WithApi(annotations, s3.api \o <<answer>>),
               stored |-> Some(NewJob(job_id, [ identifier |-> job_id ],
                                      job_pod_spec.ret[1].pod_spec)) ]
        ELSE [ out |-> WithApi(Return(Some(<<None, "accepted">>)), s3.api \o <<answer>>),
               stored |-> Some(NewJob(job_id, annotations.ret[1],
                                      job_pod_spec.ret[1].pod_spec)) ]

\* KubernetesManager._execute_handler_async; e = [secret, create, now, link]:
\* the injected faults, the clock and the link a contract processor chooses.
\* Gives the outcome and the Job stored, if one is.
_execute_handler_async(m, p, job_id, data, e) ==
    LET s3 == _get_s3_bucket_config(m, e.secret)
        job_pod_spec == create_job_pod_spec(p, data, manager_def[m].user_uuid,
                                            s3.ret, e.now, e.link)
        annotations == SubmissionAnnotations(job_id, job_pod_spec.ret[1], e.now)
        answer == CreateStatusCode(JobKey(m, job_id), e.create)
        nothing(o, api) == [out |-> WithApi(o, api), stored |-> None]
    IN  IF s3.exc # "" THEN nothing(s3, s3.api)
        ELSE IF job_pod_spec.exc # "" THEN nothing(job_pod_spec, s3.api)
        ELSE IF annotations.exc # "" THEN nothing(annotations, s3.api)
        ELSE IF answer # 201 THEN nothing(RaiseApi(answer), s3.api \o <<answer>>)
        ELSE [ out |-> WithApi(Return(Some(<<None, "accepted">>)), s3.api \o <<answer>>),
               stored |-> Some(NewJob(job_id, annotations.ret[1],
                                      job_pod_spec.ret[1].pod_spec)) ]

---------------------------------------------------------------------------
(* The cluster's side: what the Job controller, the kubelet and the TTL     *)
(* controller report for a Job and its pod                                  *)

ContainerState(waiting, terminated) ==
    [ state |-> [ waiting |-> waiting, terminated |-> terminated ] ]

\* a pod the scheduler has not placed yet reports no container statuses
PodPending == [ status |-> [ container_statuses |-> None ] ]

PodWaiting ==
    [ status |-> [ container_statuses |-> Some(<<ContainerState(
        Some([reason |-> "ImagePullBackOff", message |-> "Back-off pulling image"]),
        None)>>) ] ]

PodRunning ==
    [ status |-> [ container_statuses |-> Some(<<ContainerState(None, None)>>) ] ]

PodTerminated(reason) ==
    [ status |-> [ container_statuses |-> Some(<<ContainerState(
        None, Some([reason |-> reason, message |-> ""]))>>) ] ]

\* a Job of the namespace created by someone else
ForeignJob ==
    [ metadata |-> [ name |-> ForeignName, annotations |-> None ],
      spec |-> [ template |-> [ restart_policy |-> "OnFailure",
                                containers |-> <<"backup">>,
                                share_process_namespace |-> FALSE ],
                 backoff_limit |-> 6,
                 ttl_seconds_after_finished |-> 0 ],
      status |-> [ succeeded |-> None, failed |-> None, active |-> Some(1),
                   conditions |-> None, completion_time |-> None ] ]

Remove(f, keys) == [ k \in DOMAIN f \ keys |-> f[k] ]

ManagedKeys == { k \in DOMAIN jobs : is_k8s_job_name(k[2]) }

Finished(job) ==
    /\ job.status.conditions # None
    /\ \E i \in DOMAIN job.status.conditions[1] :
          /\ job.status.conditions[1][i].type \in {"Complete", "Failed"}
          /\ job.status.conditions[1][i].status = "True"

\* no call's outcome is waiting to be taken by its caller
NoCall == [ op |-> "", m |-> "", p |-> "", job_id |-> "",
            exc |-> "", http |-> 0, ret |-> None, api |-> <<>> ]

WithStatus(key, status) ==
    [ jobs EXCEPT ![key] = [ @ EXCEPT !.status = status ] ]

\* the Job controller creates the pod: one active pod, not yet scheduled
ClusterStartPod(key) ==
    /\ last = NoCall
    /\ key \in ManagedKeys
    /\ job_status_from_k8s(jobs[key].status) = "accepted"
    /\ pods[key] = <<>>
    /\ jobs' = WithStatus(key, [ jobs[key].status EXCEPT !.active = Some(1) ])
    /\ pods' = [ pods EXCEPT ![key] = <<PodPending>> ]
    /\ last' = NoCall
    /\ UNCHANGED <<manager_def, namespaces, secrets, submitted_by, sync>>

\* the kubelet reports the container as waiting or as running
KubeletReport(key, pod) ==
    /\ last = NoCall
    /\ key \in ManagedKeys
    /\ job_status_from_k8s(jobs[key].status) = "running"
    /\ pods[key] # <<pod>>
    /\ pods' = [ pods EXCEPT ![key] = <<pod>> ]
    /\ last' = NoCall
    /\ UNCHANGED <<manager_def, namespaces, jobs, secrets, submitted_by, sync>>

\* the container exits 0: the Job is complete
ClusterSucceed(key, t) ==
    /\ last = NoCall
    /\ key \in ManagedKeys
    /\ job_status_from_k8s(jobs[key].status) = "running"
    /\ pods[key] = <<PodRunning>>
    /\ jobs' = WithStatus(key,
          [ succeeded |-> Some(1), failed |-> None, active |-> None,
            conditions |-> Some(<<[ type |-> "Complete", status |-> "True",
                                    last_transition_time |-> t ]>>),
            completion_time |-> Some(t) ])
    /\ pods' = [ pods EXCEPT ![key] = <<PodTerminated("Completed")>> ]
    /\ last' = NoCall
    /\ UNCHANGED <<manager_def, namespaces, secrets, submitted_by, sync>>

\* the container exits non-zero: the controller counts the failed pod first
ClusterFailCount(key) ==
    /\ last = NoCall
    /\ key \in ManagedKeys
    /\ job_status_from_k8s(jobs[key].status) = "running"
    /\ pods[key] = <<PodRunning>>
    /\ jobs' = WithStatus(key,
          [ jobs[key].status EXCEPT !.failed = Some(1), !.active = None ])
    /\ pods' = [ pods EXCEPT ![key] = <<PodTerminated("Error")>> ]
    /\ last' = NoCall
    /\ UNCHANGED <<manager_def, namespaces, secrets, submitted_by, sync>>

\* ... and then adds the Failed condition (backoffLimit 0 is exceeded)
ClusterFailCondition(key, t) ==
    /\ last = NoCall
    /\ key \in ManagedKeys
    /\ job_status_from_k8s(jobs[key].status) = "failed"
    /\ jobs[key].status.conditions = None
    /\ jobs' = WithStatus(key,
          [ jobs[key].status EXCEPT
              !.conditions = Some(<<[ type |-> "Failed", status |-> "True",
                                      last_transition_time |-> t ]>>) ])
    /\ last' = NoCall
    /\ UNCHANGED <<manager_def, namespaces, pods, secrets, submitted_by, sync>>

\* ttlSecondsAfterFinished has passed: the TTL controller removes the Job
TTLCollect(key) ==
    /\ last = NoCall
    /\ key \in ManagedKeys
    /\ Finished(jobs[key])
    /\ jobs' = Remove(jobs, {key})
    /\ pods' = Remove(pods, {key})
    /\ submitted_by' = Remove(submitted_by, {key})
    /\ last' = NoCall
    /\ UNCHANGED <<manager_def, namespaces, secrets, sync>>

\* somebody creates or deletes the secret s3-bucket
SecretChange(ns) ==
    /\ last = NoCall
    /\ ns \in namespaces
    /\ secrets' = IF ns \in secrets THEN secrets \ {ns} ELSE secrets \cup {ns}
    /\ last' = NoCall
    /\ UNCHANGED <<manager_def, namespaces, jobs, pods, submitted_by, sync>>

\* somebody else creates a Job of their own in the namespace
ForeignCreate(ns) ==
    /\ last = NoCall
    /\ ns \in namespaces
    /\ <<ns, ForeignName>> \notin DOMAIN jobs
    /\ Cardinality(DOMAIN jobs) < MaxJobs
    /\ jobs' = (<<ns, ForeignName>> :> ForeignJob) @@ jobs
    /\ pods' = (<<ns, ForeignName>> :> <<>>) @@ pods
    /\ last' = NoCall
    /\ UNCHANGED <<manager_def, namespaces, secrets, submitted_by, sync>>

---------------------------------------------------------------------------
(* The manager's operations as steps *)

Step(op, m, p, job_id, o) ==
    [ op |-> op, m |-> m, p |-> p, job_id |-> job_id,
      exc |-> o.exc, http |-> o.http, ret |-> o.ret, api |-> o.api ]

Idle == [ pc |-> "idle", m |-> "", p |-> "", job_id |-> "", status |-> "" ]

FaultPairs == [ read : Faults, pods : Faults ]

ListFaults == [ list : Faults, pods : Faults ]

\* at most one injected fault per submission
Submissions ==
    { e \in [ secret : Faults, create : Faults, now : Times ] :
        e.secret = 200 \/ e.create = 200 }

\* the blocking call modelled: its caller and its job id
SyncCallers == {"m1"}

SyncJobIds == {"a"}

\* the link a contract processor answers with: it names the output by the time
LinkAt(now) == IF now = 1 THEN "https://example.org/r1" ELSE "https://example.org/r2"

Env(e) == [ secret |-> e.secret, create |-> e.create, now |-> e.now,
            link |-> LinkAt(e.now) ]

Data == [ notebook : Notebooks, parameters : {""} ]

GetJobs(m, f) ==
    /\ last = NoCall
    /\ last' = Step("get_jobs", m, "", "", get_jobs(m, f))
    /\ UNCHANGED <<manager_def, namespaces, jobs, pods, secrets, submitted_by, sync>>

GetJobResult(m, job_id, f) ==
    /\ last = NoCall
    /\ last' = Step("get_job_result", m, "", job_id, get_job_result(m, job_id, f))
    /\ UNCHANGED <<manager_def, namespaces, jobs, pods, secrets, submitted_by, sync>>

GetJobOutput(m, job_id, f) ==
    /\ last = NoCall
    /\ last' = Step("get_job_output", m, "", job_id, get_job_output(m, job_id, f))
    /\ UNCHANGED <<manager_def, namespaces, jobs, pods, secrets, submitted_by, sync>>

DeleteJob(m, job_id, fault) ==
    /\ last = NoCall
    /\ jobs' = Remove(jobs, DeletedKeys(m, job_id, fault))
    /\ pods' = Remove(pods, DeletedKeys(m, job_id, fault))
    /\ submitted_by' = Remove(submitted_by, DeletedKeys(m, job_id, fault))
    /\ last' = Step("delete_job", m, "", job_id, delete_job(m, job_id, fault))
    /\ UNCHANGED <<manager_def, namespaces, secrets, sync>>

GetS3BucketConfig(m, fault) ==
    /\ last = NoCall
    /\ last' = Step("_get_s3_bucket_config", m, "", "", _get_s3_bucket_config(m, fault))
    /\ UNCHANGED <<manager_def, namespaces, jobs, pods, secrets, submitted_by, sync>>

\* the values of the status parameter tried on get_jobs
StatusFilters == {"failed"}

\* get_jobs(status=...): the parameter is accepted and not read (the filter is
\* a TODO of the method), so the outcome is that of get_jobs without it
GetJobsWithStatus(m, status, f) ==
    /\ last = NoCall
    /\ last' = Step("get_jobs", m, "", "", get_jobs(m, f)) @@ [ status |-> status ]
    /\ UNCHANGED <<manager_def, namespaces, jobs, pods, secrets, submitted_by, sync>>

AddJob(m, job_id) ==
    /\ last = NoCall
    /\ last' = Step("add_job", m, "", job_id, add_job(m, [ identifier |-> job_id ]))
    /\ UNCHANGED <<manager_def, namespaces, jobs, pods, secrets, submitted_by, sync>>

UpdateJob(m, job_id) ==
    /\ last = NoCall
    /\ last' = Step("update_job", m, "", job_id,
                    update_job(m, job_id, [ status |-> "successful" ]))
    /\ UNCHANGED <<manager_def, namespaces, jobs, pods, secrets, submitted_by, sync>>

DeleteJobs(m) ==
    /\ last = NoCall
    /\ last' = Step("delete_jobs", m, "", "", delete_jobs(m, 0, 0))
    /\ UNCHANGED <<manager_def, namespaces, jobs, pods, secrets, submitted_by, sync>>

GetJobStatus(m, job_id) ==
    /\ last = NoCall
    /\ last' = Step("get_job_status", m, "", job_id, get_job_status(m, "", job_id, <<>>))
    /\ UNCHANGED <<manager_def, namespaces, jobs, pods, secrets, submitted_by, sync>>

\* the cluster after create_namespaced_job stored the Job (or did not)
Stored(m, job_id, stored) ==
    /\ stored # None => Cardinality(DOMAIN jobs) < MaxJobs
    /\ jobs' = IF stored = None THEN jobs
               ELSE (JobKey(m, job_id) :> stored[1]) @@ jobs
    /\ pods' = IF stored = None THEN pods
               ELSE (JobKey(m, job_id) :> <<>>) @@ pods
    /\ submitted_by' = IF stored = None THEN submitted_by
                       ELSE (JobKey(m, job_id) :> m) @@ submitted_by

ExecuteHandlerAsync(m, p, job_id, data, e) ==
    LET r == _execute_handler_async(m, p, job_id, data, Env(e))
    IN  /\ last = NoCall
        /\ Stored(m, job_id, r.stored)
        /\ last' = Step("_execute_handler_async", m, p, job_id, r.out)
        /\ UNCHANGED <<manager_def, namespaces, secrets, sync>>

\* _execute_handler, first statement: the submission.  When it raises, the
\* call is over.  last.op names the statement the call has come to:
\* "_execute_handler:submit", "_execute_handler:poll", and "_execute_handler"
\* for the return statement.
ExecuteHandlerSubmit(m, p, job_id, data, e) ==
    LET r == _execute_handler_async(m, p, job_id, data, Env(e))
    IN  /\ last = NoCall
        /\ sync.pc = "idle"
        /\ Stored(m, job_id, r.stored)
        /\ IF r.out.exc # ""
           THEN /\ last' = Step("_execute_handler:submit", m, p, job_id, r.out)
                /\ sync' = sync
           ELSE /\ last' = Step("_execute_handler:submit", m, p, job_id,
                                WithApi(Return(None), r.out.api))
                /\ sync' = [ pc |-> "poll", m |-> m, p |-> p, job_id |-> job_id,
                             status |-> "" ]
        /\ UNCHANGED <<manager_def, namespaces, secrets>>

\* _execute_handler, one turn of the loop: sleep, read, decide
ExecuteHandlerPoll(f) ==
    LET result == get_job_result(sync.m, sync.job_id, f)
        polled(status) == [ sync EXCEPT !.pc = "output", !.status = status ]
    IN  /\ last = NoCall
        /\ sync.pc = "poll"
        /\ IF result.exc # ""
           THEN /\ last' = Step("_execute_handler:poll", sync.m, sync.p, sync.job_id,
                                result)
                /\ sync' = Idle
           ELSE /\ last' = Step("_execute_handler:poll", sync.m, sync.p, sync.job_id,
                                result)
                /\ sync' = IF result.ret = None THEN polled("failed")
                           ELSE IF result.ret[1].status \notin {"running", "accepted"}
                           THEN polled(result.ret[1].status)
                           ELSE sync
        /\ UNCHANGED <<manager_def, namespaces, jobs, pods, secrets, submitted_by>>

\* _execute_handler, the return statement: (get_job_output(...)[1], status)
ExecuteHandlerReturn(f) ==
    LET output == get_job_output(sync.m, sync.job_id, f)
    IN  /\ last = NoCall
        /\ sync.pc = "output"
        /\ last' = Step("_execute_handler", sync.m, sync.p, sync.job_id,
                        IF output.exc # "" THEN output
                        ELSE WithApi(Return(Some(<<output.ret[1][2], sync.status>>)),
                                     output.api))
        /\ sync' = Idle
        /\ UNCHANGED <<manager_def, namespaces, jobs, pods, secrets, submitted_by>>

\* the caller has taken the outcome of its call (or of the step of
\* _execute_handler); the next call or cluster event starts from here
Taken ==
    /\ last # NoCall
    /\ last' = NoCall
    /\ UNCHANGED <<manager_def, namespaces, jobs, pods, secrets, submitted_by, sync>>

---------------------------------------------------------------------------
(* The specification *)

Init ==
    /\ \E own \in BOOLEAN :
          manager_def = [ m \in Managers |->
                            [ user_uuid |-> UserUuid(m),
                              jobs_in_user_namespace |-> (own /\ m = "m1") ] ]
    /\ namespaces \in { {current_namespace},
                        {current_namespace} \cup { namespace(m) : m \in Managers } }
    /\ jobs = <<>>
    /\ pods = <<>>
    /\ secrets = {}
    /\ submitted_by = <<>>
    /\ sync = Idle
    /\ last = NoCall

AllKeys == { <<ns, AllNames[i]>> : ns \in AllNamespaces, i \in DOMAIN AllNames }

Cluster ==
    \/ \E key \in AllKeys : ClusterStartPod(key)
    \/ \E key \in AllKeys, pod \in {PodWaiting, PodRunning} : KubeletReport(key, pod)
    \/ \E key \in AllKeys, t \in Times : ClusterSucceed(key, t)
    \/ \E key \in AllKeys : ClusterFailCount(key)
    \/ \E key \in AllKeys, t \in Times : ClusterFailCondition(key, t)
    \/ \E key \in AllKeys : TTLCollect(key)
    \/ SecretChange(current_namespace)
    \/ ForeignCreate(current_namespace)

Manager ==
    \/ \E m \in Managers, f \in ListFaults : GetJobs(m, f)
    \/ \E m \in Managers, job_id \in JobIds, f \in FaultPairs : GetJobResult(m, job_id, f)
    \/ \E m \in Managers, job_id \in JobIds, f \in FaultPairs : GetJobOutput(m, job_id, f)
    \/ \E m \in Managers, job_id \in JobIds, fault \in Faults : DeleteJob(m, job_id, fault)
    \/ \E m \in Managers, fault \in Faults : GetS3BucketConfig(m, fault)
    \/ \E m \in Managers, p \in Processors, job_id \in JobIds, data \in Data,
          e \in Submissions : ExecuteHandlerAsync(m, p, job_id, data, e)
    \/ \E m \in SyncCallers, p \in Processors, job_id \in SyncJobIds, data \in Data,
          e \in Submissions : ExecuteHandlerSubmit(m, p, job_id, data, e)
    \/ \E f \in FaultPairs : ExecuteHandlerPoll(f)
    \/ \E f \in FaultPairs : ExecuteHandlerReturn(f)
    \/ \E m \in Managers, status \in StatusFilters, f \in ListFaults :
          GetJobsWithStatus(m, status, f)
    \/ \E m \in Managers, job_id \in SyncJobIds : AddJob(m, job_id)
    \/ \E m \in Managers, job_id \in SyncJobIds : UpdateJob(m, job_id)
    \/ \E m \in Managers : DeleteJobs(m)
    \/ \E m \in Managers, job_id \in SyncJobIds : GetJobStatus(m, job_id)

Next == Cluster \/ Manager \/ Taken

Spec == Init /\ [][Next]_vars

---------------------------------------------------------------------------
(* job_status_from_k8s on every combination of the three counters *)

\* the largest pod count tried
MaxCount == 2

Counters == {None} \cup { Some(n) : n \in 0..MaxCount }

StatusKey == <<current_namespace, k8s_job_name("a")>>

InitStatus ==
    /\ manager_def = [ m \in Managers |->
                         [ user_uuid |-> UserUuid(m), jobs_in_user_namespace |-> FALSE ] ]
    /\ namespaces = {current_namespace}
    /\ \E succeeded \in Counters, failed \in Counters, active \in Counters :
          jobs = StatusKey :>
                   [ NewJob("a", <<>>, <<>>) EXCEPT
                       !.status = [ succeeded |-> succeeded, failed |-> failed,
                                    active |-> active, conditions |-> None,
                                    completion_time |-> None ] ]
    /\ pods = StatusKey :> <<>>
    /\ secrets = {}
    /\ submitted_by = <<>>
    /\ sync = Idle
    /\ last = NoCall

ApplyJobStatus ==
    /\ last = NoCall
    /\ last' = Step("job_status_from_k8s", "", "", "a",
                    WithApi(Return(Some(job_status_from_k8s(jobs[StatusKey].status))),
                            <<>>))
    /\ UNCHANGED <<manager_def, namespaces, jobs, pods, secrets, submitted_by, sync>>

NextStatus == ApplyJobStatus

SpecStatus == InitStatus /\ [][NextStatus]_vars

\* an absent counter counts as zero
CountOf(counter) == IF counter = None THEN 0 ELSE counter[1]

\* C3: job_status_from_k8s is a strict priority order over the three pod
\* counters, an absent counter counting as zero: successful if succeeded > 0,
\* else failed if failed > 0, else running if active > 0, else accepted.
C3_StatusPriority ==
    last.op = "job_status_from_k8s" =>
        LET status == jobs[StatusKey].status
        IN  last.ret = Some(
                CASE CountOf(status.succeeded) > 0 -> "successful"
                  [] CountOf(status.succeeded) = 0 /\ CountOf(status.failed) > 0 -> "failed"
                  [] CountOf(status.succeeded) = 0 /\ CountOf(status.failed) = 0
                       /\ CountOf(status.active) > 0 -> "running"
                  [] OTHER -> "accepted")

\* C3 witness: failed and active pods are both reported, succeeded is absent,
\* and the status computed is failed
C3_Witness ==
    /\ last.op = "job_status_from_k8s"
    /\ jobs[StatusKey].status.succeeded = None
    /\ CountOf(jobs[StatusKey].status.failed) > 0
    /\ CountOf(jobs[StatusKey].status.active) > 0
    /\ last.ret = Some("failed")

---------------------------------------------------------------------------
(* Claims about the manager, checked under Spec *)

\* no API call of the step was answered by an injected server fault
NoFault(api) == \A i \in DOMAIN api : api[i] # 500

\* the Jobs of manager m's namespace that carry the manager's name prefix
ManagedKeysOf(m) == { k \in ManagedKeys : k[1] = namespace(m) }

Identifier(key) == jobs[key].metadata.annotations["pygeoapi_identifier"]

\* C1: in every reachable state get_job_result returns a Job representation
\* if and only if a Kubernetes Job named k8s_job_name(jobId) exists in the
\* manager's namespace, and get_jobs returns exactly one representation for
\* each Job of that namespace whose name satisfies is_k8s_job_name.
C1_JobIffKubernetesJob ==
    /\ (last.op = "get_job_result" /\ NoFault(last.api)) =>
          /\ last.exc = ""
          /\ (last.ret # None) <=> (JobKey(last.m, last.job_id) \in DOMAIN jobs)
    /\ (last.op = "get_jobs" /\ NoFault(last.api)) =>
          /\ last.exc = ""
          /\ Len(last.ret[1]) = Cardinality(ManagedKeysOf(last.m))
          /\ \A k \in ManagedKeysOf(last.m) :
                Cardinality({ i \in DOMAIN last.ret[1] :
                                last.ret[1][i].identifier = Identifier(k) }) = 1

\* C2: for a job id whose computed name is not in use, _execute_handler_async
\* called with one of the repository's processors creates exactly one Job
\* named pygeoapi-job-<jobId> in the manager's namespace, with backoffLimit 0,
\* ttlSecondsAfterFinished 604800 and the annotations pygeoapi_identifier,
\* pygeoapi_process_start_datetime and pygeoapi_result_link, and returns
\* (no payload, accepted).
C2_AsyncSubmissionCreatesJob ==
    [][ LET key == JobKey(last'.m, last'.job_id)
        IN  ( /\ last'.op = "_execute_handler_async"
              /\ last'.p \in RepoProcessors
              /\ key \notin DOMAIN jobs
              /\ key[1] \in namespaces
              /\ NoFault(last'.api) )
            => ( /\ last'.exc = ""
                 /\ last'.ret = Some(<<None, "accepted">>)
                 /\ DOMAIN jobs' = DOMAIN jobs \cup {key}
                 /\ jobs'[key].metadata.name = "pygeoapi-job-" \o last'.job_id
                 /\ jobs'[key].spec.backoff_limit = 0
                 /\ jobs'[key].spec.ttl_seconds_after_finished = 604800
                 /\ jobs'[key].metadata.annotations["pygeoapi_identifier"] = last'.job_id
                 /\ {"pygeoapi_process_start_datetime", "pygeoapi_result_link"}
                       \subseteq DOMAIN jobs'[key].metadata.annotations )
      ]_vars

\* C4: get_job_output returns (absent, absent) when no Job with the computed
\* name exists, (status, absent) when the derived status is accepted, running
\* or failed, and (successful, {result_link: the stored link}) when it is
\* successful; never a result link with another status.
C4_JobOutputByStatus ==
    (last.op = "get_job_output" /\ NoFault(last.api)) =>
        LET key == JobKey(last.m, last.job_id)
        IN  /\ last.exc = ""
            /\ key \notin DOMAIN jobs => last.ret = Some(<<None, None>>)
            /\ key \in DOMAIN jobs =>
                  LET status == job_status_from_k8s(jobs[key].status)
                  IN  IF status = "successful"
                      THEN last.ret = Some(<<Some("successful"),
                              Some([ result_link |->
                                  jobs[key].metadata.annotations["pygeoapi_result_link"] ])>>)
                      ELSE last.ret = Some(<<Some(status), None>>)

\* C5: whenever the synchronous _execute_handler returns, the status it
\* returns is successful or failed and the payload is the output of that
\* status: {result_link: link} when successful, absent when failed, also when
\* delete_job or the TTL collection interleaves with the polling.
C5_SyncReturnsTerminalOutcome ==
    (last.op = "_execute_handler" /\ last.exc = "") =>
        LET payload == last.ret[1][1]
            status == last.ret[1][2]
        IN  /\ status \in {"successful", "failed"}
            /\ status = "failed" => payload = None
            /\ status = "successful" =>
                  (payload # None /\ DOMAIN payload[1] = {"result_link"})

\* C9: for every Job whose failed count is > 0 and succeeded count is not,
\* get_job_result, get_jobs and the _execute_handler poll report status failed
\* with a message string and never raise, whatever shape the cluster reports;
\* process_end_datetime is the latest transition time among the conditions of
\* type Failed with status True, and absent when there is none.
C9_FailedJobReported ==
    /\ ( /\ last.op \in {"get_job_result", "_execute_handler:poll"}
         /\ NoFault(last.api)
         /\ JobKey(last.m, last.job_id) \in DOMAIN jobs
         /\ Positive(jobs[JobKey(last.m, last.job_id)].status.failed)
         /\ ~Positive(jobs[JobKey(last.m, last.job_id)].status.succeeded) )
       => LET conditions == jobs[JobKey(last.m, last.job_id)].status.conditions
              latest == IF conditions = None THEN None
                        ELSE LatestFailedTransition(conditions[1])
          IN  /\ last.exc = ""
              /\ last.ret[1].status = "failed"
              /\ last.ret[1].message \in {"", "Error"}
              /\ last.ret[1].process_end_datetime =
                    IF latest = None THEN None ELSE Some(strftime(latest[1]))
    /\ ( /\ last.op = "get_jobs"
         /\ NoFault(last.api)
         /\ \E k \in ManagedKeysOf(last.m) :
               Positive(jobs[k].status.failed) /\ ~Positive(jobs[k].status.succeeded) )
       => last.exc = ""

\* C6: delete_job returns True and removes exactly the Job named
\* k8s_job_name(jobId) of the manager's namespace when it exists; returns
\* False and leaves the cluster unchanged when it does not exist (404);
\* re-raises any other API fault unchanged; no other Job is ever removed.
C6_DeleteJobExact ==
    [][ last'.op = "delete_job" =>
          LET key == JobKey(last'.m, last'.job_id)
          IN  /\ DOMAIN jobs' \subseteq DOMAIN jobs
              /\ \A k \in DOMAIN jobs \ {key} : k \in DOMAIN jobs' /\ jobs'[k] = jobs[k]
              /\ (NoFault(last'.api) /\ key \in DOMAIN jobs) =>
                    /\ last'.exc = ""
                    /\ last'.ret = Some(TRUE)
                    /\ key \notin DOMAIN jobs'
              /\ (NoFault(last'.api) /\ key \notin DOMAIN jobs) =>
                    /\ last'.exc = ""
                    /\ last'.ret = Some(FALSE)
                    /\ last'.api = <<NOT_FOUND>>
                    /\ UNCHANGED <<jobs, pods, secrets, namespaces>>
              /\ ~NoFault(last'.api) =>
                    /\ last'.exc = "ApiException"
                    /\ last'.http = 500
                    /\ UNCHANGED <<jobs, pods, secrets, namespaces>>
      ]_vars

\* C6 witness: delete_job has answered True and another Job of the manager's
\* namespace is still there
C6_Witness ==
    /\ last.op = "delete_job"
    /\ last.ret = Some(TRUE)
    /\ JobKey(last.m, last.job_id) \notin DOMAIN jobs
    /\ ManagedKeysOf(last.m) # {}

\* the names and job ids the naming functions are tried on
NameUniverse ==
    { ForeignName, "pygeoapi-job-", "pygeoapi-job", "pygeoapi_job-a",
      "pygeoapi-job-a", "pygeoapi-job-b", "pygeoapi-job-11111111-aaa-a",
      "xpygeoapi-job-a" }

IdUniverse == { "", "a", "b", "11111111-aaa-a" }

\* the representation get_job_result gives for the Job at key
RepresentationAt(key) == JobRepresentation(key, 200).ret

FailedBeforeCreate(step) ==
    /\ step.exc # ""
    /\ step.exc = "ApiException" => Len(step.api) = 1

\* C8: a submission that fails before the cluster call (result_type other
\* than "link", create_job_pod_spec raising, the secret probe raising a
\* non-404 fault) raises to the caller and leaves the set of Jobs as it was.
C8_FailedSubmissionCreatesNothing ==
    [][ last'.op \in {"_execute_handler_async", "_execute_handler:submit"} =>
          /\ (last'.p = "file" /\ last'.api[1] # 500) => last'.exc = "Exception"
          /\ (last'.p = "eox" /\ last'.api[1] # 500) => last'.exc = "TypeError"
          /\ last'.api[1] = 500 =>
                (last'.exc = "ApiException" /\ last'.http = 500 /\ Len(last'.api) = 1)
          /\ FailedBeforeCreate(last') => UNCHANGED <<jobs, pods>>
      ]_vars

\* C8 witness: a submission with a processor whose result type is not "link"
\* has raised, for a job id whose name was free
C8_Witness ==
    /\ last.op = "_execute_handler_async"
    /\ last.p = "file"
    /\ last.exc = "Exception"
    /\ JobKey(last.m, last.job_id) \notin DOMAIN jobs
    /\ namespace(last.m) \in namespaces

\* C10 as the code has it: a 404 answered to the read or the delete of a Job
\* or to the secret probe is turned into an absent value, (absent, absent),
\* False, or the failed outcome of the synchronous poll; a 404 answered to
\* create_namespaced_job is raised to the caller of _execute_handler_async and
\* of _execute_handler.
C10_NotFoundHandledExceptOnCreate ==
    /\ (last.op = "get_job_result" /\ last.api = <<NOT_FOUND>>) =>
          (last.exc = "" /\ last.ret = None)
    /\ (last.op = "get_job_output" /\ last.api = <<NOT_FOUND>>) =>
          (last.exc = "" /\ last.ret = Some(<<None, None>>))
    /\ (last.op = "delete_job" /\ last.api = <<NOT_FOUND>>) =>
          (last.exc = "" /\ last.ret = Some(FALSE))
    /\ (last.op = "_get_s3_bucket_config" /\ last.api = <<NOT_FOUND>>) =>
          (last.exc = "" /\ last.ret = None)
    /\ (last.op = "_execute_handler:poll" /\ last.api = <<NOT_FOUND>>) =>
          (last.exc = "" /\ sync.pc = "output" /\ sync.status = "failed")
    /\ (last.op = "_execute_handler" /\ last.api = <<NOT_FOUND>>) =>
          (last.exc = "" /\ last.ret[1][1] = None)
    /\ last.op \in {"_execute_handler_async", "_execute_handler:submit"} =>
          /\ (last.exc = "ApiException" /\ last.http = NOT_FOUND) =>
                (Len(last.api) = 2 /\ last.api[2] = NOT_FOUND)
          /\ (Len(last.api) = 2 /\ last.api[2] = NOT_FOUND) =>
                (last.exc = "ApiException" /\ last.http = NOT_FOUND)
          /\ (last.p = "link" /\ last.api = <<NOT_FOUND, 201>>) => last.exc = ""

\* C10 witness: create_namespaced_job has answered 404 for a namespace that
\* does not exist, after the secret probe's 404 was taken as "no secret"
C10_Witness ==
    /\ last.op = "_execute_handler_async"
    /\ last.api = <<NOT_FOUND, NOT_FOUND>>
    /\ last.exc = "ApiException"
    /\ namespace(last.m) \notin namespaces

\* C10 as the specification states it: no manager operation raises the 404
\* of a Kubernetes API call to its caller.
C10_NoOperationRaisesNotFound ==
    ~(last.exc = "ApiException" /\ last.http = NOT_FOUND)

\* C11: add_job, update_job, delete_jobs, and get_jobs called with a status
\* filter each fail with an explicit error and leave the cluster unchanged;
\* none of them returns normally.
C11_UnsupportedOperationsFail ==
    [][ ( \/ last'.op \in {"add_job", "update_job", "delete_jobs"}
          \/ (last'.op = "get_jobs" /\ "status" \in DOMAIN last') )
        => ( /\ last'.exc # ""
             /\ UNCHANGED <<jobs, pods, secrets, namespaces>> )
      ]_vars

---------------------------------------------------------------------------
(* format_annotation_key and parse_annotation_key on domain metadata maps *)

\* keys and values of the domain metadata maps tried
DomainKeys == { "", "identifier", "result_link", "a\nb" }

DomainValues == { "v", "w" }

\* most keys a metadata map holds
MaxKeys == 2

MetadataMaps ==
    UNION { [ ks -> DomainValues ] :
              ks \in { x \in SUBSET DomainKeys : Cardinality(x) <= MaxKeys } }

\* annotations of other tools: keys that do not carry the prefix
ForeignAnnotations == [ owner |-> "x", pygeoapi |-> "y" ]

ForeignMaps ==
    { [ a \in ks |-> ForeignAnnotations[a] ] : ks \in SUBSET DOMAIN ForeignAnnotations }

\* a Job whose annotations are the formatted metadata map and the foreign ones
InitAnnotations ==
    /\ manager_def = [ m \in Managers |->
                         [ user_uuid |-> UserUuid(m), jobs_in_user_namespace |-> FALSE ] ]
    /\ namespaces = {current_namespace}
    /\ \E metadata \in MetadataMaps, foreign \in ForeignMaps :
          /\ jobs = StatusKey :>
                      [ NewJob("a", metadata, <<>>)
                          EXCEPT !.metadata.annotations = @ @@ foreign ]
          /\ last = [ NoCall EXCEPT !.op = "format_annotation_key" ]
                       @@ [ metadata |-> metadata ]
    /\ pods = <<>>
    /\ secrets = {}
    /\ submitted_by = <<>>
    /\ sync = Idle

ParseAnnotations ==
    /\ last.op = "format_annotation_key"
    /\ last' = [ last EXCEPT
                   !.op = "job_from_k8s",
                   !.ret = Some(MetadataFromAnnotation(
                                  jobs[StatusKey].metadata.annotations)) ]
    /\ UNCHANGED <<manager_def, namespaces, jobs, pods, secrets, submitted_by, sync>>

NextAnnotations == ParseAnnotations

SpecAnnotations == InitAnnotations /\ [][NextAnnotations]_vars

\* C12: formatting every key of a domain metadata map with
\* format_annotation_key and parsing the resulting annotation map as
\* job_from_k8s does recovers exactly the original map, for any string keys;
\* annotation keys without the prefix are discarded.
C12_AnnotationRoundTrip ==
    (last.op = "job_from_k8s" /\ "metadata" \in DOMAIN last) =>
        last.ret = Some(last.metadata)

---------------------------------------------------------------------------
(* create_job_pod_spec of the two notebook processors, executed directly   *)
(* (as the tests do) and by the first statement of _execute_handler_async  *)

\* values of processor_def["default_image"]
Images ==
    { "example", "jupyter-user-g:1.2.3", "jupyter-user:1.2.3-g",
      "jupyter-user:1.2.3", "registry:5000/user-g:1.0" }

\* values of data["notebook"]
NotebookPaths == { "a", "a.ipynb", "a/b/a.ipynb", "/data/x/n.ipynb", "/n.ipynb" }

\* values of processor_def["extra_pvcs"]
ExtraPvcs == { <<>>, << [ claim_name |-> "my_pvc", mount_path |-> "/mnt" ] >> }

\* values of processor_def["image_pull_secret"]
ImagePullSecrets == { "", "psrcr" }

ProcessorDefs ==
    { [ DefaultProcessorDef EXCEPT !.default_image = image, !.extra_pvcs = extra_pvcs,
                                   !.image_pull_secret = image_pull_secret ] :
        image \in Images, extra_pvcs \in ExtraPvcs,
        image_pull_secret \in ImagePullSecrets }

\* last reading of the clock, in ticks
MaxClock == 3

Clock == 0..MaxClock

\* the managers whose submissions are followed up to create_job_pod_spec
PodSpecManagers == {"m2"}

\* the record of an execution of create_job_pod_spec: arguments and outcome
PodSpecStep(m, p, processor_def, data, s3_bucket_config, now, o) ==
    Step("create_job_pod_spec", m, p, "", o)
        @@ [ processor_def |-> processor_def, data |-> data,
             s3_bucket_config |-> s3_bucket_config, now |-> now ]

\* the processor executes again: the clock has not gone back
Again(p, processor_def, now) ==
    \/ last = NoCall
    \/ /\ last.op = "create_job_pod_spec"
       /\ last.m = ""
       /\ last.p = p
       /\ last.processor_def = processor_def
       /\ now >= last.now

\* PapermillNotebookKubernetesProcessor(processor_def).create_job_pod_spec(...)
CreatePapermillPodSpec(processor_def, data, s3_bucket_config, now) ==
    /\ Again("papermill", processor_def, now)
    /\ last' = PodSpecStep("", "papermill", processor_def, data, s3_bucket_config, now,
                  WithApi(Return(Some(PapermillJobPodSpec(processor_def, data, "",
                                                          s3_bucket_config, now))), <<>>))
    /\ UNCHANGED <<manager_def, namespaces, jobs, pods, secrets, submitted_by, sync>>

\* EOXPapermillNotebookKubernetesProcessor(processor_def).create_job_pod_spec(...)
CreateEOXPodSpec(data, now) ==
    /\ Again("eox", DefaultProcessorDef, now)
    /\ last' = PodSpecStep("", "eox", DefaultProcessorDef, data, None, now,
                  WithApi(Return(Some(EOXJobPodSpec(data, "", "", now))), <<>>))
    /\ UNCHANGED <<manager_def, namespaces, jobs, pods, secrets, submitted_by, sync>>

\* _execute_handler_async up to the value of create_job_pod_spec: the secret
\* probe, then the Papermill processor with what the probe gave
SubmissionPodSpec(m, processor_def, data, fault, now) ==
    LET s3 == _get_s3_bucket_config(m, fault)
    IN  /\ last = NoCall
        /\ last' = PodSpecStep(m, "papermill", processor_def, data, s3.ret, now,
                      IF s3.exc # "" THEN s3
                      ELSE WithApi(Return(Some(PapermillJobPodSpec(
                                       processor_def, data, manager_def[m].user_uuid,
                                       s3.ret, now))), s3.api))
        /\ UNCHANGED <<manager_def, namespaces, jobs, pods, secrets, submitted_by, sync>>

InitPodSpec ==
    /\ manager_def = [ m \in Managers |->
                         [ user_uuid |-> UserUuid(m), jobs_in_user_namespace |-> FALSE ] ]
    /\ namespaces = {current_namespace}
    /\ jobs = <<>>
    /\ pods = <<>>
    /\ secrets = {}
    /\ submitted_by = <<>>
    /\ sync = Idle
    /\ last = NoCall

PodSpecData == [ notebook : NotebookPaths, parameters : {""} ]

NextPodSpec ==
    \/ \E processor_def \in ProcessorDefs, data \in PodSpecData,
          s3_bucket_config \in { None, Some([ secret_name |-> "a" ]) }, now \in Clock :
          CreatePapermillPodSpec(processor_def, data, s3_bucket_config, now)
    \/ \E data \in PodSpecData, now \in Clock : CreateEOXPodSpec(data, now)
    \/ \E m \in PodSpecManagers, processor_def \in ProcessorDefs, data \in PodSpecData,
          fault \in Faults, now \in Clock :
          SubmissionPodSpec(m, processor_def, data, fault, now)
    \/ SecretChange(current_namespace)
    \/ Taken

SpecPodSpec == InitPodSpec /\ [][NextPodSpec]_vars

\* the pod specification and the primary container of the last execution
BuiltPodSpec == last.ret[1].items[1]

PrimaryContainer == BuiltPodSpec.containers[1]

BuiltByPapermill ==
    last.op = "create_job_pod_spec" /\ last.p = "papermill" /\ last.exc = ""

HasS3Mounter == \E i \in DOMAIN BuiltPodSpec.containers :
                    BuiltPodSpec.containers[i].name = "s3mounter"

HasS3Mount == \E i \in DOMAIN PrimaryContainer.volume_mounts :
                  PrimaryContainer.volume_mounts[i].mount_path = "/home/jovyan/s3"

\* C13: the pod specification of a submission contains the container
\* s3mounter, and the primary container a mount at /home/jovyan/s3, if and only
\* if an S3BucketConfig is supplied, which for a submission is the case if and
\* only if the secret s3-bucket exists in the manager's namespace at that
\* time; the probe is made anew by every submission.
C13_S3SidecarIffSecret ==
    /\ BuiltByPapermill =>
          /\ HasS3Mounter <=> (last.s3_bucket_config # None)
          /\ HasS3Mount <=> (last.s3_bucket_config # None)
    /\ (BuiltByPapermill /\ last.m # "") =>
          /\ (last.s3_bucket_config # None) <=> (namespace(last.m) \in secrets)
          /\ HasS3Mounter <=> (namespace(last.m) \in secrets)
          /\ Len(last.api) = 1
    /\ (last.op = "create_job_pod_spec" /\ last.m # "" /\ last.exc # "") =>
          (last.exc = "ApiException" /\ last.http = 500)

\* C13 witness: a submission made after the secret was created has built a
\* pod with the sidecar and the mount
C13_Witness ==
    /\ BuiltByPapermill
    /\ last.m # ""
    /\ namespace(last.m) \in secrets
    /\ HasS3Mounter
    /\ HasS3Mount

\* the images of Images whose name, the text before the first ":", ends with "-g"
GpuNamedImages == { "jupyter-user-g:1.2.3" }

\* the text after the last ":" of the image
ImageTag(image) ==
    LET colons == { i \in 1..Len(image) : SubSeq(image, i, i) = ":" }
        last_colon == CHOOSE i \in colons \cup {0} : \A j \in colons : j <= i
    IN  SubSeq(image, last_colon + 1, Len(image))

\* the pod carries the GPU node affinity and the GPU toleration
HasGpuPlacement ==
    /\ BuiltPodSpec.affinity # None
    /\ LET r == BuiltPodSpec.affinity[1].node_affinity
                    .required_during_scheduling_ignored_during_execution
           e == r.node_selector_terms[1].match_expressions[1]
       IN  e.key = "hub.eox.at/node-purpose" /\ e.operator = "In" /\ e.values = <<"g2">>
    /\ BuiltPodSpec.tolerations # None
    /\ BuiltPodSpec.tolerations[1][1].key = "hub.eox.at/gpu"
    /\ BuiltPodSpec.tolerations[1][1].effect = "NoSchedule"

HasNoPlacement == BuiltPodSpec.affinity = None /\ BuiltPodSpec.tolerations = None

\* C14 as the code has it: the job is GPU-bound if and only if the text before
\* the first ":" of the configured image (the image name up to there, not the
\* tag) ends with "-g"; exactly then the kernel is edc-gpu and the pod carries
\* the node affinity hub.eox.at/node-purpose In {g2} and the toleration
\* hub.eox.at/gpu NoSchedule; otherwise the kernel is edc and affinity and
\* tolerations are absent.
C14_GpuByImageName ==
    BuiltByPapermill =>
        LET image == last.processor_def.default_image
            gpu == EndsWith(SplitFirst(image, ":"), "-g")
        IN  /\ gpu <=> (image \in GpuNamedImages)
            /\ gpu => (PrimaryContainer.command.kernel = "edc-gpu" /\ HasGpuPlacement)
            /\ ~gpu => (PrimaryContainer.command.kernel = "edc" /\ HasNoPlacement)

\* C14 witness: an image whose name ends with "-g" and whose tag does not
C14_Witness ==
    /\ BuiltByPapermill
    /\ last.processor_def.default_image = "jupyter-user-g:1.2.3"
    /\ PrimaryContainer.command.kernel = "edc-gpu"
    /\ HasGpuPlacement

\* C14 as the specification states it: GPU-bound if and only if the image's
\* tag, the text after the last ":", ends with "-g".
C14_GpuByImageTag ==
    BuiltByPapermill =>
        LET gpu == EndsWith(ImageTag(last.processor_def.default_image), "-g")
        IN  /\ gpu => (PrimaryContainer.command.kernel = "edc-gpu" /\ HasGpuPlacement)
            /\ ~gpu => (PrimaryContainer.command.kernel = "edc" /\ HasNoPlacement)

\* the text of a path before its last "/", and "/" for a file of the root
DirName(path) ==
    LET slashes == { i \in 1..Len(path) : SubSeq(path, i, i) = "/" }
        last_slash == CHOOSE i \in slashes \cup {0} : \A j \in slashes : j <= i
    IN  IF last_slash = 1 THEN "/" ELSE SubSeq(path, 1, last_slash - 1)

C16_ExtraPvcsMounted ==
    BuiltByPapermill =>
        LET extra_pvcs == last.processor_def.extra_pvcs
            claimed == { i \in DOMAIN BuiltPodSpec.volumes :
                           BuiltPodSpec.volumes[i].persistent_volume_claim # None }
        IN  /\ \A e \in DOMAIN extra_pvcs :
                  \E i \in claimed :
                     /\ BuiltPodSpec.volumes[i].persistent_volume_claim
                           = Some(extra_pvcs[e].claim_name)
                     /\ \E j \in DOMAIN PrimaryContainer.volume_mounts :
                           /\ PrimaryContainer.volume_mounts[j].mount_path
                                 = extra_pvcs[e].mount_path
                           /\ PrimaryContainer.volume_mounts[j].name
                                 = BuiltPodSpec.volumes[i].name
            /\ extra_pvcs = <<>> => Cardinality(claimed) = 1

\* C17: with a non-empty image_pull_secret configured the pod has an
\* imagePullSecrets list of exactly one entry carrying that name; without one,
\* no image pull secret is set.
C17_ImagePullSecretApplied ==
    BuiltByPapermill =>
        LET image_pull_secret == last.processor_def.image_pull_secret
        IN  /\ image_pull_secret # "" =>
                  BuiltPodSpec.image_pull_secrets = Some(<<image_pull_secret>>)
            /\ image_pull_secret = "" => BuiltPodSpec.image_pull_secrets = None

\* C18: two executions of create_job_pod_spec for the same source notebook
\* path give different output notebook paths and different result links,
\* however little time passes between them, for both notebook processors.
C18_OutputNotebooksDistinct ==
    [][ ( /\ last.op = "create_job_pod_spec"
          /\ last'.op = "create_job_pod_spec"
          /\ last.exc = ""
          /\ last'.exc = ""
          /\ last'.p = last.p
          /\ last'.data.notebook = last.data.notebook )
        => ( /\ last'.ret[1].items[1].containers[1].command.output_notebook
                  # last.ret[1].items[1].containers[1].command.output_notebook
             /\ last'.ret[1].items[2].link # last.ret[1].items[2].link )
      ]_vars

---------------------------------------------------------------------------
(* Claims about submissions under a name in use and about what the manager *)
(* leaves alone, checked under Spec                                        *)

Submission(step) == step.op \in {"_execute_handler_async", "_execute_handler:submit"}

\* C19: a submission for a job id whose computed name is in use is rejected:
\* it does not return accepted, the call that reaches create_namespaced_job
\* receives the cluster's fault (409) unchanged, the cluster keeps exactly the
\* one Job of that name with its annotations and pod spec unaltered; a
\* submission returns accepted only for a name that was free.
C19_NameCollisionRejected ==
    [][ Submission(last') =>
          LET key == JobKey(last'.m, last'.job_id)
          IN  /\ key \in DOMAIN jobs =>
                    /\ last'.exc # ""
                    /\ jobs' = jobs
                    /\ Len(last'.api) = 2 =>
                          /\ last'.exc = "ApiException"
                          /\ last'.http = last'.api[2]
                          /\ last'.http \in {409, 500}
                    /\ (Len(last'.api) = 2 /\ NoFault(last'.api)) => last'.http = 409
              /\ last'.exc = "" =>
                    /\ key \notin DOMAIN jobs
                    /\ DOMAIN jobs' = DOMAIN jobs \cup {key}
                    /\ \A k \in DOMAIN jobs : jobs'[k] = jobs[k]
      ]_vars

\* C19 witness: a second submission under the same job id has been answered
\* the name collision, the Job of the first one being there
C19_Witness ==
    /\ last.op = "_execute_handler_async"
    /\ last.p = "link"
    /\ last.exc = "ApiException"
    /\ last.http = 409
    /\ JobKey(last.m, last.job_id) \in DOMAIN jobs
    /\ JobKey(last.m, last.job_id) \in DOMAIN submitted_by

\* C20: no manager operation changes the name, annotations or spec of an
\* existing Job or the set of Secrets; get_jobs, get_job_result,
\* get_job_output, get_job_status and _get_s3_bucket_config leave the Jobs as
\* they are; a submission only adds the one Job; delete_job only removes the
\* one Job of the computed name; update_job raises without any effect.
C20_ManagerNeverAltersJobs ==
    [][ last'.op # "" =>
          LET key == JobKey(last'.m, last'.job_id)
          IN  /\ \A k \in DOMAIN jobs \cap DOMAIN jobs' :
                    /\ jobs'[k].metadata = jobs[k].metadata
                    /\ jobs'[k].spec = jobs[k].spec
              /\ secrets' = secrets
              /\ last'.op \in { "get_jobs", "get_job_result", "get_job_output",
                                "get_job_status", "_get_s3_bucket_config",
                                "update_job", "_execute_handler:poll",
                                "_execute_handler" }
                    => UNCHANGED <<jobs, pods>>
              /\ last'.op = "update_job" => last'.exc = "NotImplementedError"
              /\ last'.op = "get_job_status" => (last'.exc = "" /\ last'.ret = None)
              /\ Submission(last') =>
                    /\ DOMAIN jobs \subseteq DOMAIN jobs'
                    /\ DOMAIN jobs' \ DOMAIN jobs \subseteq {key}
                    /\ \A k \in DOMAIN jobs : jobs'[k] = jobs[k]
              /\ last'.op = "delete_job" =>
                    /\ DOMAIN jobs' \subseteq DOMAIN jobs
                    /\ DOMAIN jobs \ DOMAIN jobs' \subseteq {key}
                    /\ \A k \in DOMAIN jobs' : jobs'[k] = jobs[k]
      ]_vars

\* C20 witness: update_job has raised for a Job that exists, next to another
\* Job and a Secret
C20_Witness ==
    /\ last.op = "update_job"
    /\ last.exc = "NotImplementedError"
    /\ JobKey(last.m, last.job_id) \in DOMAIN jobs
    /\ Cardinality(DOMAIN jobs) = 2
    /\ secrets # {}

---------------------------------------------------------------------------
(* The blocking call _execute_handler with its loop scheduled fairly: the  *)
(* thread of the call takes every turn of "sleep, read, decide" it is due  *)

\* the API answers without injected fault
NoFaults == [ read |-> 200, pods |-> 200 ]

\* one turn of the loop, and the return statement, the API answering
SyncPoll == ExecuteHandlerPoll(NoFaults)

SyncReturn == ExecuteHandlerReturn(NoFaults)

\* delete_job served by another thread while the call polls: what it does
\* to the cluster (its answer goes to that thread's caller)
ConcurrentDelete(m, job_id) ==
    /\ last = NoCall
    /\ DeletedKeys(m, job_id, 200) # {}
    /\ jobs' = Remove(jobs, DeletedKeys(m, job_id, 200))
    /\ pods' = Remove(pods, DeletedKeys(m, job_id, 200))
    /\ submitted_by' = Remove(submitted_by, DeletedKeys(m, job_id, 200))
    /\ last' = NoCall
    /\ UNCHANGED <<manager_def, namespaces, secrets, sync>>

NextSync ==
    \/ \E m \in SyncCallers, p \in Processors, job_id \in SyncJobIds, data \in Data,
          e \in Submissions : ExecuteHandlerSubmit(m, p, job_id, data, e)
    \/ SyncPoll
    \/ SyncReturn
    \/ \E key \in AllKeys : ClusterStartPod(key)
    \/ \E key \in AllKeys, pod \in {PodWaiting, PodRunning} : KubeletReport(key, pod)
    \/ \E key \in AllKeys, t \in Times : ClusterSucceed(key, t)
    \/ \E key \in AllKeys : ClusterFailCount(key)
    \/ \E key \in AllKeys, t \in Times : ClusterFailCondition(key, t)
    \/ \E key \in AllKeys : TTLCollect(key)
    \/ \E m \in Managers, job_id \in SyncJobIds : ConcurrentDelete(m, job_id)
    \/ SecretChange(current_namespace)
    \/ Taken

SpecSync ==
    /\ Init
    /\ [][NextSync]_vars
    /\ SF_vars(SyncPoll)
    /\ SF_vars(SyncReturn)
    /\ WF_vars(Taken)

\* the call is in its loop
Polling == sync.pc = "poll"

SyncKey == JobKey(sync.m, sync.job_id)

\* the Job of the call has reached succeeded or failed, or is gone
Settled ==
    \/ SyncKey \notin DOMAIN jobs
    \/ job_status_from_k8s(jobs[SyncKey].status) \in {"successful", "failed"}

\* the call has returned its (payload, status)
Returned == last.op = "_execute_handler" /\ last.exc = ""

\* C21: with the polling loop scheduled fairly, a call of _execute_handler
\* whose Job has reached succeeded or failed, or was removed, eventually
\* returns; and the call leaves its loop only then: as long as the Job is
\* present in status accepted or running it does not return.
C21_SyncCallReturnsOnceSettled ==
    /\ (Polling /\ Settled) ~> Returned
    /\ [][ (Polling /\ sync'.pc = "output") => Settled ]_vars
    /\ [][ Returned' => sync.pc = "output" ]_vars

====
